---- MODULE Spec2Model ----
(***************************************************************************)
(* Model of extensions/positron-python/pythonFiles/positron_ipkernel.py:   *)
(* the change-tracking namespace PositronDict and the environment-view     *)
(* controller PositronIPyKernel (pre/post execute hooks, the comm message  *)
(* handler, the delete operations and the report senders).                 *)
(*                                                                         *)
(* The kernel is single threaded: every hook and every message handler     *)
(* runs to completion, so each is one action.  User code mutates the       *)
(* namespace between handle_pre_execute and handle_post_execute, one       *)
(* mapping operation per action.                                           *)
(***************************************************************************)
EXTENDS Integers, Sequences, FiniteSets, TLC

\* ------------------------------------------------------------------------
\* Bounds of the model
\* ------------------------------------------------------------------------

\* Variable names user code and the client may use.
Keys == {"x", "_h"}

\* Python objects user code binds, one atom per object, so that `is` is
\* equality of atoms.
\*   num : a number      fn : a plain function
\*   bad : an object whose __repr__ raises
Values == {"num", "fn", "bad"}

\* The hidden-name sets (shell.user_ns_hidden) a session may run with.
HiddenSets == {{}, {"_h"}}

\* Longest name list of a delete request.
MaxNames == 2

\* Longest list of pairs passed to update(), and the values it is given.
MaxUpdate == 2
UpdateValues == {"num", "fn"}

\* Types of client messages that are none of refresh, clear, delete.
UnknownTypes == {"bogus"}

\* MAX_ITEMS of the source is 2000; the model scales it to the key universe.
MAX_ITEMS == 2

\* ------------------------------------------------------------------------
\* Python dict: an insertion-ordered mapping, a sequence of <<key, value>>
\* ------------------------------------------------------------------------

DictKeys(d) == {d[i][1] : i \in DOMAIN d}

DictHas(d, k) == k \in DictKeys(d)

DictGet(d, k) == LET i == CHOOSE j \in DOMAIN d : d[j][1] = k IN d[i][2]

\* d[k] = v : an existing key keeps its position, a new key goes last.
DictPut(d, k, v) ==
    IF DictHas(d, k)
    THEN [i \in DOMAIN d |-> IF d[i][1] = k THEN <<k, v>> ELSE d[i]]
    ELSE Append(d, <<k, v>>)

DictDel(d, k) == LET keep(e) == e[1] # k IN SelectSeq(d, keep)

\* Outcome of a call: a normal return with a value, or a raised exception.
Return(v) == [ok |-> TRUE, val |-> v]
Raise(e) == [ok |-> FALSE, exc |-> e]

\* Marker used to track if no default was specified when popping.
NoDefaultSpecified == "_NoDefaultSpecified"

\* ------------------------------------------------------------------------
\* PositronDict: [items, assigned, removed]
\* ------------------------------------------------------------------------

\* PositronDict() with no initial content.
PositronDictInit == [items |-> <<>>, assigned |-> <<>>, removed |-> {}]

SetItem(pd, key, value) ==
    [pd EXCEPT !.items = DictPut(pd.items, key, value),
               !.assigned = DictPut(pd.assigned, key, value)]

\* update(other): other is a sequence of <<key, value>> pairs.
RECURSIVE Update(_, _)
Update(pd, other) ==
    IF other = <<>> THEN pd
    ELSE Update(SetItem(pd, Head(other)[1], Head(other)[2]), Tail(other))

\* setdefault(key, default): the pair <<new dict, returned value>>.
SetDefault(pd, key, default) ==
    LET result == IF DictHas(pd.items, key) THEN DictGet(pd.items, key) ELSE default
        items2 == IF DictHas(pd.items, key) THEN pd.items
                  ELSE DictPut(pd.items, key, default)
    IN  [pd |-> [pd EXCEPT !.items = items2,
                           !.assigned = IF result = default
                                        THEN DictPut(pd.assigned, key, default)
                                        ELSE pd.assigned],
         ret |-> Return(result)]

\* __delitem__ recording the removal before the mapping is asked.
DelItemRecordsFirst(pd, key) ==
    IF DictHas(pd.items, key)
    THEN [pd |-> [pd EXCEPT !.items = DictDel(pd.items, key),
                            !.removed = pd.removed \cup {key}],
          ret |-> Return("None")]
    ELSE [pd |-> [pd EXCEPT !.removed = pd.removed \cup {key}],
          ret |-> Raise("KeyError")]

DelItem(pd, key) ==
    IF DictHas(pd.items, key)
    THEN [pd |-> [pd EXCEPT !.items = DictDel(pd.items, key),
                            !.removed = pd.removed \cup {key}],
          ret |-> Return("None")]
    ELSE [pd |-> pd, ret |-> Raise("KeyError")]

\* pop(key, default); default = NoDefaultSpecified when none was given.
Pop(pd, key, default) ==
    IF DictHas(pd.items, key)
    THEN LET result == DictGet(pd.items, key)
         IN [pd |-> [pd EXCEPT !.items = DictDel(pd.items, key),
                               !.removed = IF result # default
                                           THEN pd.removed \cup {key}
                                           ELSE pd.removed],
             ret |-> Return(result)]
    ELSE IF default = NoDefaultSpecified
         THEN [pd |-> pd, ret |-> Raise("KeyError")]
         ELSE [pd |-> pd, ret |-> Return(default)]

PositronGetChanges(pd) == <<pd.assigned, pd.removed>>

\* A reset that forgets the assignments but keeps the removals.
ResetWatchKeepsRemoved(pd) == [pd EXCEPT !.assigned = <<>>]

PositronResetWatch(pd) == [pd EXCEPT !.assigned = <<>>, !.removed = {}]

\* clear() reporting the keys it drops as removed.
ClearRecordsRemovals(pd) ==
    [pd EXCEPT !.items = <<>>, !.removed = pd.removed \cup DictKeys(pd.items)]

Clear(pd) == PositronResetWatch([pd EXCEPT !.items = <<>>])

\* ------------------------------------------------------------------------
\* Variable classifier and summarizer
\* ------------------------------------------------------------------------

\* kind is None for the None object; the 'kind' entry is then left out.
NoKind == "absent"

GetKind(value) ==
    CASE value = "None" -> NoKind
      [] value = "num" -> "number"
      [] value = "fn" -> "function"
      [] OTHER -> "object"

GetQualname(value) ==
    CASE value = "None" -> "None"
      [] value = "num" -> "int"
      [] value = "fn" -> "function"
      [] OTHER -> "__main__.Obj"

\* pprint.pformat / repr of the value: raises when the object's __repr__ does.
FormatValue(value) ==
    IF value = "bad" THEN Raise("ReprError") ELSE Return(value)

\* EnvironmentVariable(name, value, kind, type_name, length, size): the six
\* parameters are all required, a call with fewer raises TypeError.
EnvironmentVariable(args) ==
    IF Len(args) = 6
    THEN Return([name |-> args[1], value |-> args[2], kind |-> args[3],
                 type_name |-> args[4]])
    ELSE Raise("TypeError")

SummarizeAny(key, value, kind) ==
    LET type_name == GetQualname(value)
        summarized_value == FormatValue(value)
    IN  IF summarized_value.ok
        THEN EnvironmentVariable(<<key, summarized_value.val, kind, type_name, 0, 0>>)
        ELSE EnvironmentVariable(<<key, type_name, NoKind>>)

SummarizeFunction(key, value) ==
    EnvironmentVariable(<<key, value, "function", GetQualname(value), "None", 0>>)

\* summarize_variables counting the hidden entries it skips.
RECURSIVE SummarizeLoopCountsHidden(_, _, _, _, _)
SummarizeLoopCountsHidden(variables, hid, max_items, i, summaries) ==
    IF variables = <<>> THEN Return(summaries)
    ELSE LET key == Head(variables)[1]
             value == Head(variables)[2]
         IN  IF i >= max_items THEN Return(summaries)
             ELSE IF key \in hid
             THEN SummarizeLoopCountsHidden(Tail(variables), hid, max_items, i + 1,
                                            summaries)
             ELSE LET kind == GetKind(value)
                      s == IF kind = "function" THEN SummarizeFunction(key, value)
                           ELSE SummarizeAny(key, value, kind)
                  IN  IF s.ok
                      THEN SummarizeLoopCountsHidden(Tail(variables), hid, max_items,
                                                     i + 1, Append(summaries, s.val))
                      ELSE s

\* summarize_variables(variables, hidden, max_items): the list of summaries,
\* or the exception a summary raised.
RECURSIVE SummarizeLoop(_, _, _, _, _)
SummarizeLoop(variables, hid, max_items, i, summaries) ==
    IF variables = <<>> THEN Return(summaries)
    ELSE LET key == Head(variables)[1]
             value == Head(variables)[2]
         IN  IF key \in hid
             THEN SummarizeLoop(Tail(variables), hid, max_items, i, summaries)
             ELSE IF i >= max_items THEN Return(summaries)
             ELSE LET kind == GetKind(value)
                      s == IF kind = "function" THEN SummarizeFunction(key, value)
                           ELSE SummarizeAny(key, value, kind)
                  IN  IF s.ok
                      THEN SummarizeLoop(Tail(variables), hid, max_items, i + 1,
                                         Append(summaries, s.val))
                      ELSE s

SummarizeVariables(variables, hid, max_items) ==
    SummarizeLoop(variables, hid, max_items, 0, <<>>)

\* ------------------------------------------------------------------------
\* Report senders.  A sender yields [sent, raised]: the messages put on the
\* comm and whether an exception left the sender.
\* ------------------------------------------------------------------------

NoComm == "None"

Quiet == [sent |-> <<>>, raised |-> FALSE]
Raised == [sent |-> <<>>, raised |-> TRUE]

\* env_comm.send(msg); sendOk is FALSE when the transport raises.
CommSend(msg, sendOk) ==
    IF sendOk THEN [sent |-> <<msg>>, raised |-> FALSE] ELSE Raised

\* send_update sending also when nothing is left to report.
SendUpdateAlwaysSends(comm, hid, assigned_, removed_, sendOk) ==
    IF comm = NoComm THEN Quiet
    ELSE LET filtered_assigned == SummarizeVariables(assigned_, hid, MAX_ITEMS)
             filtered_removed == {name \in removed_ : name \notin hid}
         IN  IF ~filtered_assigned.ok THEN Raised
             ELSE CommSend([msg_type |-> "update",
                            assigned |-> filtered_assigned.val,
                            removed |-> filtered_removed], sendOk)

\* send_update without the filter on the removed names.
SendUpdateUnfilteredRemoved(comm, hid, assigned_, removed_, sendOk) ==
    IF comm = NoComm THEN Quiet
    ELSE LET filtered_assigned == SummarizeVariables(assigned_, hid, MAX_ITEMS)
         IN  IF ~filtered_assigned.ok THEN Raised
             ELSE IF Len(filtered_assigned.val) > 0 \/ Cardinality(removed_) > 0
             THEN CommSend([msg_type |-> "update",
                            assigned |-> filtered_assigned.val,
                            removed |-> removed_], sendOk)
             ELSE Quiet

SendUpdate(comm, hid, assigned_, removed_, sendOk) ==
    IF comm = NoComm THEN Quiet
    ELSE LET filtered_assigned == SummarizeVariables(assigned_, hid, MAX_ITEMS)
             filtered_removed == {name \in removed_ : name \notin hid}
         IN  IF ~filtered_assigned.ok THEN Raised
             ELSE IF Len(filtered_assigned.val) > 0 \/ Cardinality(filtered_removed) > 0
             THEN CommSend([msg_type |-> "update",
                            assigned |-> filtered_assigned.val,
                            removed |-> filtered_removed], sendOk)
             ELSE Quiet

\* send_list without the test for an open comm.
SendListWithoutCommTest(comm, hid, ns, sendOk) ==
    LET filtered_variables == SummarizeVariables(ns.items, hid, MAX_ITEMS)
    IN  IF ~filtered_variables.ok THEN Raised
        ELSE CommSend([msg_type |-> "list",
                       variables |-> filtered_variables.val], sendOk)

SendList(comm, hid, ns, sendOk) ==
    IF comm = NoComm THEN Quiet
    ELSE LET filtered_variables == SummarizeVariables(ns.items, hid, MAX_ITEMS)
         IN  IF ~filtered_variables.ok THEN Raised
             ELSE CommSend([msg_type |-> "list",
                            variables |-> filtered_variables.val], sendOk)

SendError(comm, message, sendOk) ==
    IF comm = NoComm THEN Quiet
    ELSE CommSend([msg_type |-> "error", message |-> message], sendOk)

\* ------------------------------------------------------------------------
\* Deleting variables.  shell.del_var belongs to the host shell; the model
\* keeps what its call sites rely on: it removes the named binding from
\* user_ns (through PositronDict.__delitem__) or it raises.  `fails` is the
\* set of names the host refuses to delete during the handler.
\* ------------------------------------------------------------------------

DelVar(pd, name, fails) ==
    IF name \in fails THEN [pd |-> pd, ret |-> Raise("ValueError")]
    ELSE LET r == DelItem(pd, name)
         IN  IF r.ret.ok THEN r ELSE [pd |-> pd, ret |-> Raise("NameError")]

\* The loop of delete_all_vars over the snapshot `ns` of the namespace.
RECURSIVE DeleteAllLoop(_, _, _, _, _)
DeleteAllLoop(pd, ns, hid, fails, warnings) ==
    IF ns = <<>> THEN [pd |-> pd, log |-> warnings]
    ELSE LET key == Head(ns)[1]
         IN  IF key \in hid
             THEN DeleteAllLoop(pd, Tail(ns), hid, fails, warnings)
             ELSE LET r == DelVar(pd, key, fails)
                  IN  IF r.ret.ok
                      THEN DeleteAllLoop(r.pd, Tail(ns), hid, fails, warnings)
                      ELSE DeleteAllLoop(pd, Tail(ns), hid, fails,
                                         IF DictHas(pd.items, key)
                                         THEN warnings \cup {key} ELSE warnings)

\* A handler yields [pd, sent, raised, log].
DeleteAllVars(pd, comm, hid, fails, sendOk) ==
    LET after == DeleteAllLoop(pd, pd.items, hid, fails, {})
        s == SendList(comm, hid, after.pd, sendOk)
    IN  [pd |-> after.pd, sent |-> s.sent, raised |-> s.raised, log |-> after.log]

\* The loop of delete_vars over the requested names.
RECURSIVE DeleteLoop(_, _, _, _)
DeleteLoop(pd, names, fails, warnings) ==
    IF names = <<>> THEN [pd |-> pd, log |-> warnings]
    ELSE LET r == DelVar(pd, Head(names), fails)
         IN  IF r.ret.ok
             THEN DeleteLoop(r.pd, Tail(names), fails, warnings)
             ELSE DeleteLoop(pd, Tail(names), fails, warnings \cup {Head(names)})

\* An optional name list: NoNames when the request carries no 'name' entry
\* (None), Names(l) for the list l.
NoNames == <<>>
Names(l) == <<l>>

\* delete_vars without the reset of the watch before the deletions.
DeleteVarsWithoutReset(pd, comm, hid, names, fails, sendOk) ==
    IF names = NoNames
    THEN [pd |-> pd, sent |-> <<>>, raised |-> FALSE, log |-> {}]
    ELSE LET after == DeleteLoop(pd, names[1], fails, {})
             changes == PositronGetChanges(after.pd)
             s == SendUpdate(comm, hid, changes[1], changes[2], sendOk)
         IN  [pd |-> after.pd, sent |-> s.sent, raised |-> s.raised, log |-> after.log]

DeleteVars(pd, comm, hid, names, fails, sendOk) ==
    IF names = NoNames
    THEN [pd |-> pd, sent |-> <<>>, raised |-> FALSE, log |-> {}]
    ELSE LET after == DeleteLoop(PositronResetWatch(pd), names[1], fails, {})
             changes == PositronGetChanges(after.pd)
             s == SendUpdate(comm, hid, changes[1], changes[2], sendOk)
         IN  [pd |-> after.pd, sent |-> s.sent, raised |-> s.raised, log |-> after.log]

\* ------------------------------------------------------------------------
\* Hooks and the comm message handler
\* ------------------------------------------------------------------------

\* handle_pre_execute leaving the watch as it is.
PreExecuteKeepsWatch(pd) == pd

PreExecute(pd) == PositronResetWatch(pd)

\* The body of handle_post_execute, inside its try block.
PostExecuteBody(pd, comm, hid, sendOk) ==
    LET changes == PositronGetChanges(pd)
        assigned_ == changes[1]
        removed_ == changes[2]
        ns == PositronResetWatch(pd)
        s == IF Len(assigned_) < MAX_ITEMS /\ Cardinality(removed_) < MAX_ITEMS
             THEN SendUpdate(comm, hid, assigned_, removed_, sendOk)
             ELSE SendList(comm, hid, ns, sendOk)
    IN  [pd |-> ns, sent |-> s.sent, raised |-> s.raised, log |-> {}]

\* handle_post_execute without its try block.
PostExecuteUncaught(pd, comm, hid, sendOk) == PostExecuteBody(pd, comm, hid, sendOk)

\* except BaseException as err: logging.warning(err)
PostExecute(pd, comm, hid, sendOk) ==
    LET r == PostExecuteBody(pd, comm, hid, sendOk)
    IN  IF r.raised THEN [r EXCEPT !.raised = FALSE, !.log = {"post_execute"}]
        ELSE r

\* _recv(msg): data is the record msg['content']['data']; msg_type is NoType
\* when data has no such entry.
NoType == "None"

\* _recv answering a message of unknown type with a list report.
RecvListsOnUnknownType(pd, comm, hid, data, fails, sendOk) ==
    LET msgType == data.msg_type
        plain(s) == [pd |-> pd, sent |-> s.sent, raised |-> s.raised, log |-> {}]
    IN  IF msgType # NoType
        THEN CASE msgType = "clear" -> DeleteAllVars(pd, comm, hid, fails, sendOk)
               [] msgType = "delete" -> DeleteVars(pd, comm, hid, data.name, fails, sendOk)
               [] OTHER -> plain(SendList(comm, hid, pd, sendOk))
        ELSE plain(SendError(comm, <<"Could not determine message type">>, sendOk))

Recv(pd, comm, hid, data, fails, sendOk) ==
    LET msgType == data.msg_type
        plain(s) == [pd |-> pd, sent |-> s.sent, raised |-> s.raised, log |-> {}]
    IN  IF msgType # NoType
        THEN CASE msgType = "refresh" -> plain(SendList(comm, hid, pd, sendOk))
               [] msgType = "clear" -> DeleteAllVars(pd, comm, hid, fails, sendOk)
               [] msgType = "delete" -> DeleteVars(pd, comm, hid, data.name, fails, sendOk)
               [] OTHER -> plain(SendError(comm, <<"Unknown message type", msgType>>, sendOk))
        ELSE plain(SendError(comm, <<"Could not determine message type">>, sendOk))

\* ------------------------------------------------------------------------
\* State
\* ------------------------------------------------------------------------

VARIABLES
    user_ns,    \* shell.user_ns, the PositronDict
    hidden,     \* shell.user_ns_hidden, the names kept out of every report
    env_comm,   \* self.env_comm: NoComm until the client opens the comm
    pc,         \* "idle", or "executing" between the pre and post hooks
    sent,       \* messages the last operation sent on the comm, in order
    raised,     \* TRUE when the last operation left an exception to its caller
    log,        \* warnings the last operation logged
    op,         \* the last operation: [name, args, fails, ret]
    last,       \* history: per key, the last successful change since the reset
    faulty      \* TRUE when env_comm.send may raise

vars == <<user_ns, hidden, env_comm, pc, sent, raised, log, op, last, faulty>>

NoChange == [k \in Keys |-> "none"]

\* Sequences of at most n elements of S.
SeqsUpTo(S, n) == UNION {[1..m -> S] : m \in 0..n}

NameLists == SeqsUpTo(Keys, MaxNames)

ClientData ==
    {[msg_type |-> t, name |-> NoNames] :
        t \in {"refresh", "clear", "delete", NoType} \cup UnknownTypes}
    \cup {[msg_type |-> "delete", name |-> Names(n)] : n \in NameLists}

SendOutcomes == IF faulty THEN BOOLEAN ELSE {TRUE}

Operation(name, args, fails, ret) ==
    [name |-> name, args |-> args, fails |-> fails, ret |-> ret]

\* History after a handler: a reset forgets, a deleted binding is recorded.
LastAfter(before, after, base) ==
    [k \in Keys |-> IF DictHas(before.items, k) /\ ~DictHas(after.items, k)
                    THEN "del" ELSE base[k]]

TypeOK ==
    /\ DictKeys(user_ns.items) \subseteq Keys
    /\ DictKeys(user_ns.assigned) \subseteq Keys
    /\ user_ns.removed \subseteq Keys
    /\ hidden \in HiddenSets
    /\ env_comm \in {NoComm, "open"}
    /\ pc \in {"idle", "executing"}
    /\ raised \in BOOLEAN
    /\ Len(sent) <= 1

InitCommon ==
    /\ user_ns = PositronDictInit
    /\ hidden \in HiddenSets
    /\ env_comm = NoComm
    /\ pc = "idle"
    /\ sent = <<>>
    /\ raised = FALSE
    /\ log = {}
    /\ op = Operation("__init__", <<>>, {}, Return("None"))
    /\ last = NoChange

Init == InitCommon /\ faulty = FALSE

InitFaulty == InitCommon /\ faulty \in BOOLEAN

\* ------------------------------------------------------------------------
\* User code: one mapping operation on user_ns per step
\* ------------------------------------------------------------------------

UserStep(pd, name, args, ret, last2) ==
    /\ user_ns' = pd
    /\ op' = Operation(name, args, {}, ret)
    /\ last' = last2
    /\ sent' = <<>>
    /\ raised' = FALSE
    /\ log' = {}
    /\ UNCHANGED <<hidden, env_comm, pc, faulty>>

UserSetItem ==
    /\ pc = "executing"
    /\ \E key \in Keys, value \in Values :
         UserStep(SetItem(user_ns, key, value), "__setitem__", <<key, value>>,
                  Return("None"), [last EXCEPT ![key] = "set"])

UserUpdate ==
    /\ pc = "executing"
    /\ \E other \in SeqsUpTo(Keys \X UpdateValues, MaxUpdate) :
         UserStep(Update(user_ns, other), "update", <<other>>, Return("None"),
                  [k \in Keys |-> IF k \in DictKeys(other) THEN "set" ELSE last[k]])

UserSetDefault ==
    /\ pc = "executing"
    /\ \E key \in Keys, default \in Values :
         LET r == SetDefault(user_ns, key, default)
         IN  UserStep(r.pd, "setdefault", <<key, default>>, r.ret,
                      IF DictHas(user_ns.items, key) THEN last
                      ELSE [last EXCEPT ![key] = "set"])

UserDelItem ==
    /\ pc = "executing"
    /\ \E key \in Keys :
         LET r == DelItem(user_ns, key)
         IN  UserStep(r.pd, "__delitem__", <<key>>, r.ret,
                      LastAfter(user_ns, r.pd, last))

UserPop ==
    /\ pc = "executing"
    /\ \E key \in Keys, default \in Values \cup {NoDefaultSpecified} :
         LET r == Pop(user_ns, key, default)
         IN  UserStep(r.pd, "pop", <<key, default>>, r.ret,
                      LastAfter(user_ns, r.pd, last))

UserClear ==
    /\ pc = "executing"
    /\ UserStep(Clear(user_ns), "clear", <<>>, Return("None"), NoChange)

\* ------------------------------------------------------------------------
\* Hooks, comm and direct calls
\* ------------------------------------------------------------------------

\* The effect of a handler that yielded r = [pd, sent, raised, log].
HandlerStep(r, name, args, fails, last2) ==
    /\ user_ns' = r.pd
    /\ sent' = r.sent
    /\ raised' = r.raised
    /\ log' = r.log
    /\ op' = Operation(name, args, fails, IF r.raised THEN Raise("error") ELSE Return("None"))
    /\ last' = last2
    /\ UNCHANGED <<hidden, faulty>>

HandlePreExecute ==
    /\ pc = "idle"
    /\ pc' = "executing"
    /\ HandlerStep([pd |-> PreExecute(user_ns), sent |-> <<>>, raised |-> FALSE,
                    log |-> {}],
                   "handle_pre_execute", <<>>, {}, NoChange)
    /\ UNCHANGED env_comm

HandlePostExecute ==
    /\ pc = "executing"
    /\ pc' = "idle"
    /\ \E sendOk \in SendOutcomes :
         HandlerStep(PostExecute(user_ns, env_comm, hidden, sendOk),
                     "handle_post_execute", <<>>, {}, NoChange)
    /\ UNCHANGED env_comm

\* environment_comm(comm, open_msg): the client opens the comm.
EnvironmentComm ==
    /\ pc = "idle"
    /\ env_comm' = "open"
    /\ \E sendOk \in SendOutcomes :
         LET s == SendList("open", hidden, user_ns, sendOk)
         IN  HandlerStep([pd |-> user_ns, sent |-> s.sent, raised |-> s.raised,
                          log |-> {}],
                         "environment_comm", <<>>, {}, last)
    /\ UNCHANGED pc

\* Which names the host refuses to delete matters to clear and delete only.
Refusals(deleting) == IF deleting THEN SUBSET Keys ELSE {{}}

\* _recv(msg): a client message on the open comm.
OnMsg ==
    /\ pc = "idle"
    /\ env_comm # NoComm
    /\ \E data \in ClientData, sendOk \in SendOutcomes :
       \E fails \in Refusals(data.msg_type \in {"clear", "delete"}) :
         LET r == Recv(user_ns, env_comm, hidden, data, fails, sendOk)
         IN  HandlerStep(r, "_recv", <<data>>, fails,
                         LastAfter(user_ns, r.pd,
                                   IF data.msg_type = "delete" /\ data.name # NoNames
                                   THEN NoChange ELSE last))
    /\ UNCHANGED <<env_comm, pc>>

\* Before the comm is open no message arrives; the host can still call the
\* public methods of the kernel directly.
CallDeleteAllVars ==
    /\ pc = "idle"
    /\ env_comm = NoComm
    /\ \E fails \in SUBSET Keys, sendOk \in SendOutcomes :
         LET r == DeleteAllVars(user_ns, env_comm, hidden, fails, sendOk)
         IN  HandlerStep(r, "delete_all_vars", <<>>, fails,
                         LastAfter(user_ns, r.pd, last))
    /\ UNCHANGED <<env_comm, pc>>

CallDeleteVars ==
    /\ pc = "idle"
    /\ env_comm = NoComm
    /\ \E names \in {Names(n) : n \in NameLists} \cup {NoNames}, fails \in SUBSET Keys,
          sendOk \in SendOutcomes :
         LET r == DeleteVars(user_ns, env_comm, hidden, names, fails, sendOk)
         IN  HandlerStep(r, "delete_vars", <<names>>, fails,
                         LastAfter(user_ns, r.pd,
                                   IF names # NoNames THEN NoChange ELSE last))
    /\ UNCHANGED <<env_comm, pc>>

CallSend ==
    /\ pc = "idle"
    /\ env_comm = NoComm
    /\ \E which \in {"send_update", "send_list", "send_error"},
          sendOk \in SendOutcomes :
         LET changes == PositronGetChanges(user_ns)
             s == CASE which = "send_update" ->
                         SendUpdate(env_comm, hidden, changes[1], changes[2], sendOk)
                    [] which = "send_list" -> SendList(env_comm, hidden, user_ns, sendOk)
                    [] OTHER -> SendError(env_comm, <<"message">>, sendOk)
         IN  HandlerStep([pd |-> user_ns, sent |-> s.sent, raised |-> s.raised,
                          log |-> {}],
                         which, <<>>, {}, last)
    /\ UNCHANGED <<env_comm, pc>>

Next ==
    \/ UserSetItem
    \/ UserUpdate
    \/ UserSetDefault
    \/ UserDelItem
    \/ UserPop
    \/ UserClear
    \/ HandlePreExecute
    \/ HandlePostExecute
    \/ EnvironmentComm
    \/ OnMsg
    \/ CallDeleteAllVars
    \/ CallDeleteVars
    \/ CallSend

Spec == Init /\ [][Next]_vars

\* The same program on a comm whose send may raise.
SpecFaulty == InitFaulty /\ [][Next]_vars

\* ------------------------------------------------------------------------
\* Properties
\* ------------------------------------------------------------------------

SetOf(seq) == {seq[i] : i \in DOMAIN seq}

SummaryNames(summaries) == {summaries[i].name : i \in DOMAIN summaries}

\* The variable names a sent message mentions.
MsgNames(msg) ==
    CASE msg.msg_type = "update" -> SummaryNames(msg.assigned) \cup msg.removed
      [] msg.msg_type = "list" -> SummaryNames(msg.variables)
      [] OTHER -> {}

MsgTypes(msgs) == {msgs[i].msg_type : i \in DOMAIN msgs}

IsRecv(o, msgType) == o.name = "_recv" /\ o.args[1].msg_type = msgType

\* C1: after any sequence of set/update/setdefault/delete/pop operations
\* since the last reset, _positron_get_changes() returns an assigned mapping
\* whose keys are exactly the keys whose last successful operation was a
\* set, and a removed set that is exactly the keys whose last successful
\* operation was a removal.
C1_LastOperationDecides ==
    LET changes == PositronGetChanges(user_ns)
    IN  /\ DictKeys(changes[1]) = {k \in Keys : last[k] = "set"}
        /\ changes[2] = {k \in Keys : last[k] = "del"}

\* C2: _positron_reset_watch() followed at once by _positron_get_changes()
\* yields an empty assigned mapping and an empty removed set, and the reset
\* leaves the keys and values of the mapping as they were.  The pre-execute
\* hook is the reset on its own; the post-execute hook resets after reading.
C2_ResetThenGetChangesIsEmpty ==
    [][op'.name \in {"handle_pre_execute", "handle_post_execute"} =>
          /\ PositronGetChanges(user_ns') = <<<<>>, {}>>
          /\ user_ns'.items = user_ns.items]_vars

C2_Witness ==
    /\ op.name = "handle_pre_execute"
    /\ Len(user_ns.items) = 2
    /\ PositronGetChanges(user_ns) = <<<<>>, {}>>

\* C3: with the comm open, handle_post_execute sends exactly a list report
\* when the number of assigned keys or of removed keys recorded since the
\* reset is at least MAX_ITEMS (hidden names included), and sends no list
\* report when both numbers are below MAX_ITEMS.
C3_ListIffTooManyChanges ==
    [][(op'.name = "handle_post_execute" /\ env_comm # NoComm) =>
          IF Len(user_ns.assigned) >= MAX_ITEMS
             \/ Cardinality(user_ns.removed) >= MAX_ITEMS
          THEN Len(sent') = 1 /\ sent'[1].msg_type = "list"
          ELSE "list" \notin MsgTypes(sent')]_vars

\* C4: no message sent on the comm names a hidden variable, neither among
\* the assigned summaries or the removed names of an update nor among the
\* variables of a list.
C4_NoHiddenNameIsReported ==
    \A i \in DOMAIN sent : MsgNames(sent[i]) \cap hidden = {}

\* A delete request whose two deletions both succeeded, one of them of a
\* hidden variable: the update names the other variable only.
C4_Witness ==
    /\ hidden = {"_h"}
    /\ IsRecv(op, "delete")
    /\ op.args[1].name = Names(<<"_h", "x">>)
    /\ log = {}
    /\ Len(sent) = 1
    /\ sent[1].msg_type = "update"
    /\ sent[1].removed = {"x"}

C6_UnknownTypeIsAnError ==
    [][(op'.name = "_recv"
        /\ op'.args[1].msg_type \notin {"refresh", "clear", "delete"})
       => /\ Len(sent') = 1
          /\ sent'[1].msg_type = "error"
          /\ op'.args[1].msg_type # NoType
               => op'.args[1].msg_type \in SetOf(sent'[1].message)
          /\ user_ns' = user_ns]_vars

C6_Witness ==
    /\ IsRecv(op, "bogus")
    /\ sent = <<[msg_type |-> "error", message |-> <<"Unknown message type", "bogus">>]>>
    /\ user_ns.items # <<>>
    /\ user_ns.removed # {}

\* C7: a clear message deletes every non-hidden name of the namespace that
\* the host does not refuse, a refusal stopping nothing; every other entry
\* keeps its position and value, and exactly one list report is sent.
C7_ClearDeletesAndLists ==
    [][IsRecv(op', "clear") =>
          LET deleted(e) == e[1] \notin hidden /\ e[1] \notin op'.fails
              kept(e) == ~deleted(e)
          IN  /\ user_ns'.items = SelectSeq(user_ns.items, kept)
              /\ Len(sent') = 1
              /\ sent'[1].msg_type = "list"]_vars

\* C8: while the comm has not been opened no operation sends a message,
\* and none of them fails.
C8_NothingIsSentWithoutComm ==
    env_comm = NoComm => (sent = <<>> /\ ~raised)

C8_Witness ==
    /\ env_comm = NoComm
    /\ op.name = "delete_vars"
    /\ user_ns.removed = {"x"}
    /\ hidden = {}

\* C9: handle_post_execute never leaves an exception to the host, whatever
\* fails inside it; at worst no report is sent for the execution.
C9_PostExecuteNeverRaises ==
    op.name = "handle_post_execute" => (~raised /\ Len(sent) <= 1)

\* A fault inside the hook was caught and logged, and nothing was sent.
C9_Witness ==
    /\ op.name = "handle_post_execute"
    /\ log = {"post_execute"}
    /\ sent = <<>>
    /\ ~raised

\* The first n entries of the mapping d whose keys are not in hid.
RECURSIVE FirstVisible(_, _, _)
FirstVisible(d, hid, n) ==
    IF d = <<>> \/ n = 0 THEN <<>>
    ELSE IF Head(d)[1] \in hid THEN FirstVisible(Tail(d), hid, n)
    ELSE <<Head(d)>> \o FirstVisible(Tail(d), hid, n - 1)

\* C10: a value whose rendering fails gets a minimal summary (name and type
\* name, no kind), summarize_variables does not raise, and every other
\* visible variable is summarized in the same report: the list sent for a
\* refresh has one summary per visible variable.
C10_FailedSummaryIsMinimal ==
    IsRecv(op, "refresh") =>
        LET visible == FirstVisible(user_ns.items, hidden, MAX_ITEMS)
        IN  /\ ~raised
            /\ Len(sent) = 1
            /\ sent[1].msg_type = "list"
            /\ Len(sent[1].variables) = Len(visible)
            /\ \A i \in DOMAIN visible :
                 /\ sent[1].variables[i].name = visible[i][1]
                 /\ ~FormatValue(visible[i][2]).ok
                      => sent[1].variables[i].kind = NoKind

\* ------------------------------------------------------------------------
\* truncate_value on its own.  A string is a sequence of characters.
\* ------------------------------------------------------------------------

\* Characters of the strings, longest string, largest max_width.
Chars == {"a", "."}
MaxLen == 4
MaxWidth == 2

Strings == SeqsUpTo(Chars, MaxLen)

Ellipsis == <<".", ".", ".">>

\* truncate_value cutting already at len(value) = max_width.
TruncateValueAtWidth(value, max_width) ==
    IF Len(value) >= max_width THEN SubSeq(value, 1, max_width) \o Ellipsis
    ELSE value

\* s = (value[:max_width] + '...') if len(value) > max_width else value
TruncateValue(value, max_width) ==
    IF Len(value) > max_width THEN SubSeq(value, 1, max_width) \o Ellipsis
    ELSE value

TruncateStep(value, max_width) ==
    /\ op' = Operation("truncate_value", <<value, max_width>>, {},
                       Return(TruncateValue(value, max_width)))
    /\ UNCHANGED <<user_ns, hidden, env_comm, pc, sent, raised, log, last, faulty>>

\* truncate_value(value, max_width) of a fresh string.
Truncate ==
    \E value \in Strings, max_width \in 0..MaxWidth : TruncateStep(value, max_width)

\* truncate_value of the string the previous call returned, same max_width.
TruncateAgain ==
    /\ op.name = "truncate_value"
    /\ TruncateStep(op.ret.val, op.args[2])

NextTruncate == Truncate \/ TruncateAgain

SpecTruncate == Init /\ [][NextTruncate]_vars

\* C11: truncate_value with limit L returns a string of length at most L
\* unchanged and otherwise its first L characters followed by '...';
\* truncating the result again with the same limit returns the result.
C11_TruncateIsIdempotent ==
    op.name = "truncate_value" =>
        LET value == op.args[1]
            L == op.args[2]
            s == op.ret.val
        IN  /\ Len(value) <= L => s = value
            /\ Len(value) > L => s = SubSeq(value, 1, L) \o Ellipsis
            /\ TruncateValue(s, L) = s

\* An already truncated string was truncated again and came back as it was.
C11_Witness ==
    /\ op.name = "truncate_value"
    /\ op.args = <<<<"a", ".", ".", ".">>, 1>>
    /\ op.ret.val = <<"a", ".", ".", ".">>

\* C12: pop(key, default) of a present key removes the entry, returns its
\* value and adds the key to the removed set, whatever the value and the
\* default; of an absent key it returns the default and records nothing, or
\* fails with KeyError when no default was given.
C12_PopRecordsEveryRemoval ==
    [][op'.name = "pop" =>
          LET key == op'.args[1]
              default == op'.args[2]
          IN  IF DictHas(user_ns.items, key)
              THEN /\ user_ns'.items = DictDel(user_ns.items, key)
                   /\ op'.ret = Return(DictGet(user_ns.items, key))
                   /\ user_ns'.removed = user_ns.removed \cup {key}
                   /\ user_ns'.assigned = user_ns.assigned
              ELSE /\ user_ns' = user_ns
                   /\ op'.ret = IF default = NoDefaultSpecified
                                THEN Raise("KeyError") ELSE Return(default)]_vars

\* C13: setdefault(key, default) of an absent key inserts the default and
\* records it as a set would; of a present key it returns the existing
\* value, leaves the mapping unchanged and adds no record.
C13_SetDefaultRecordsOnlyInsertions ==
    [][op'.name = "setdefault" =>
          LET key == op'.args[1]
              default == op'.args[2]
          IN  IF DictHas(user_ns.items, key)
              THEN /\ user_ns' = user_ns
                   /\ op'.ret = Return(DictGet(user_ns.items, key))
              ELSE /\ user_ns' = SetItem(user_ns, key, default)
                   /\ op'.ret = Return(default)]_vars

\* C14: __delitem__ of an absent key and pop of an absent key without a
\* default fail with KeyError and leave the mapping, the assigned mapping
\* and the removed set as they were.
C14_FailedRemovalChangesNothing ==
    [][(/\ op'.name \in {"__delitem__", "pop"}
        /\ ~DictHas(user_ns.items, op'.args[1])
        /\ op'.name = "pop" => op'.args[2] = NoDefaultSpecified)
       => /\ op'.ret = Raise("KeyError")
          /\ user_ns' = user_ns]_vars

\* A second del of the same key failed and the records of the first stayed.
C14_Witness ==
    /\ op = Operation("__delitem__", <<"x">>, {}, Raise("KeyError"))
    /\ user_ns.removed = {"x"}
    /\ DictKeys(user_ns.assigned) = {"x"}
    /\ DictKeys(user_ns.items) = {"_h"}

\* C15: clear() empties the mapping, the assigned mapping and the removed
\* set: _positron_get_changes() then returns two empty collections.
C15_ClearIsAHardReset ==
    [][op'.name = "clear" =>
          /\ user_ns'.items = <<>>
          /\ PositronGetChanges(user_ns') = <<<<>>, {}>>]_vars

C15_Witness ==
    /\ op.name = "clear"
    /\ pc = "executing"
    /\ user_ns = PositronDictInit

\* C16: no update report has both an empty assigned list and an empty
\* removed set: when the hidden-name filter leaves nothing, send_update
\* sends no message.
C16_NoEmptyUpdate ==
    \A i \in DOMAIN sent :
        sent[i].msg_type = "update" =>
            (Len(sent[i].assigned) > 0 \/ sent[i].removed # {})

\* A delete request removed a hidden variable only: nothing was sent.
C16_Witness ==
    /\ hidden = {"_h"}
    /\ IsRecv(op, "delete")
    /\ op.args[1].name = Names(<<"_h">>)
    /\ log = {}
    /\ user_ns.removed = {"_h"}
    /\ sent = <<>>
    /\ ~raised

\* ------------------------------------------------------------------------
\* The list report of a namespace larger than MAX_ITEMS: the comm is opened
\* on, and the client talks to, a session whose earlier executions left any
\* of these namespaces.
\* ------------------------------------------------------------------------

ListKeys == {"a", "b", "c", "_h"}
ListValues == {"num", "fn"}

\* The insertion-ordered mappings over ListKeys.
ListNamespaces ==
    {d \in SeqsUpTo(ListKeys \X ListValues, Cardinality(ListKeys)) :
        \A i, j \in DOMAIN d : d[i][1] = d[j][1] => i = j}

InitList ==
    /\ \E d \in ListNamespaces : user_ns = [PositronDictInit EXCEPT !.items = d]
    /\ hidden \in HiddenSets
    /\ env_comm = NoComm
    /\ pc = "idle"
    /\ sent = <<>>
    /\ raised = FALSE
    /\ log = {}
    /\ op = Operation("__init__", <<>>, {}, Return("None"))
    /\ last = NoChange
    /\ faulty = FALSE

NextList == EnvironmentComm \/ OnMsg

SpecList == InitList /\ [][NextList]_vars

Min(a, b) == IF a < b THEN a ELSE b

\* C17: a list report holds at most MAX_ITEMS summaries: those of the first
\* min(MAX_ITEMS, number of visible names) visible entries of the namespace
\* in its order, each name once; hidden entries do not count.
C17_ListIsCappedOverVisibleEntries ==
    \A i \in DOMAIN sent :
        sent[i].msg_type = "list" =>
            LET variables == sent[i].variables
                visible == FirstVisible(user_ns.items, hidden, MAX_ITEMS)
            IN  /\ Len(variables) <= MAX_ITEMS
                /\ Len(variables) =
                     Min(MAX_ITEMS, Cardinality(DictKeys(user_ns.items) \ hidden))
                /\ Len(variables) = Len(visible)
                /\ \A j \in DOMAIN variables :
                     /\ variables[j].name = visible[j][1]
                     /\ variables[j].value = visible[j][2]
                /\ \A j, k \in DOMAIN variables :
                     variables[j].name = variables[k].name => j = k

\* A hidden entry comes first and three visible ones follow: the list holds
\* the first MAX_ITEMS visible ones.
C17_Witness ==
    /\ hidden = {"_h"}
    /\ Len(user_ns.items) = 4
    /\ user_ns.items[1][1] = "_h"
    /\ IsRecv(op, "refresh")
    /\ Len(sent) = 1
    /\ sent[1].msg_type = "list"
    /\ Len(sent[1].variables) = MAX_ITEMS

\* The keys the tracking sets hold a record of.
Tracked(pd) == DictKeys(pd.assigned) \cup pd.removed

\* The keys a mapping operation names.
OpKeys(o) ==
    CASE o.name \in {"__setitem__", "setdefault", "__delitem__", "pop"} -> {o.args[1]}
      [] o.name = "update" -> DictKeys(o.args[1])
      [] OTHER -> {}

\* C18: an update sent by handle_post_execute reflects only what happened
\* between the matching handle_pre_execute and itself: the pre-execute hook
\* leaves no earlier record, each operation of the execution adds records
\* for the keys it names only, the update names recorded keys only, and
\* after the post-execute hook both tracking sets are empty whatever was
\* sent.
C18_UpdateCoversOneExecution ==
    [][/\ op'.name = "handle_pre_execute" => Tracked(user_ns') = {}
       /\ (pc = "executing" /\ pc' = "executing")
            => Tracked(user_ns') \subseteq Tracked(user_ns) \cup OpKeys(op')
       /\ op'.name = "handle_post_execute"
            => /\ Tracked(user_ns') = {}
               /\ \A i \in DOMAIN sent' :
                    sent'[i].msg_type = "update"
                      => /\ SummaryNames(sent'[i].assigned)
                              \subseteq DictKeys(user_ns.assigned)
                         /\ sent'[i].removed \subseteq user_ns.removed]_vars

\* An execution that bound _h only, reported by an update naming _h only,
\* in a session from which x had been removed before.
C18_Witness ==
    /\ op.name = "handle_post_execute"
    /\ hidden = {}
    /\ DictKeys(user_ns.items) = {"_h"}
    /\ Len(sent) = 1
    /\ sent[1].msg_type = "update"
    /\ SummaryNames(sent[1].assigned) = {"_h"}
    /\ sent[1].removed = {}
    /\ Tracked(user_ns) = {}

\* C19: every variable an update of handle_post_execute lists as assigned
\* is bound in the namespace when the report is sent, to the value that was
\* summarized.
C19_AssignedVariablesAreBound ==
    op.name = "handle_post_execute" =>
        \A i \in DOMAIN sent :
            sent[i].msg_type = "update" =>
                \A j \in DOMAIN sent[i].assigned :
                    /\ DictHas(user_ns.items, sent[i].assigned[j].name)
                    /\ DictGet(user_ns.items, sent[i].assigned[j].name)
                         = sent[i].assigned[j].value

\* ------------------------------------------------------------------------
\* PositronDict on its own: a program constructs one and operates on it.
\* ------------------------------------------------------------------------

\* PositronDict(other): __init__ calls update(other) before it creates
\* _positron_assigned and _positron_removed, so the first self[key] = value
\* of update stores the entry and then fails on the missing attribute.
PositronDictNew(other) ==
    LET updated == IF Len(other) > 0 THEN Raise("AttributeError") ELSE Return(<<>>)
    IN  IF updated.ok
        THEN Return([items |-> updated.val, assigned |-> <<>>, removed |-> {}])
        ELSE updated

\* The dict a sequence of pairs denotes.
RECURSIVE DictOf(_)
DictOf(other) ==
    IF other = <<>> THEN <<>>
    ELSE DictPut(DictOf(SubSeq(other, 1, Len(other) - 1)),
                 other[Len(other)][1], other[Len(other)][2])

\* user_ns is here the PositronDict the program holds; a failed construction
\* leaves it with the one it had.
Construct ==
    /\ pc = "executing"
    /\ \E other \in SeqsUpTo(Keys \X UpdateValues, MaxUpdate) :
         LET r == PositronDictNew(other)
         IN  UserStep(IF r.ok THEN r.val ELSE user_ns, "__init__", <<other>>,
                      IF r.ok THEN Return("None") ELSE r,
                      IF r.ok THEN NoChange ELSE last)

InitDict ==
    /\ user_ns = PositronDictInit
    /\ hidden = {}
    /\ env_comm = NoComm
    /\ pc = "executing"
    /\ sent = <<>>
    /\ raised = FALSE
    /\ log = {}
    /\ op = Operation("__init__", <<>>, {}, Return("None"))
    /\ last = NoChange
    /\ faulty = FALSE

NextDict == Construct \/ UserSetItem \/ UserDelItem \/ UserClear

SpecDict == InitDict /\ [][NextDict]_vars

\* C20: constructing a PositronDict succeeds for every initial content; the
\* new mapping holds exactly the given entries and its assigned mapping and
\* removed set are empty.
C20_ConstructionKeepsInitialContent ==
    op.name = "__init__" =>
        LET other == IF op.args = <<>> THEN <<>> ELSE op.args[1]
        IN  /\ op.ret.ok
            /\ user_ns.items = DictOf(other)
            /\ PositronGetChanges(user_ns) = <<<<>>, {}>>

====
